---- MODULE Spec2Model ----
(***************************************************************************)
(* Model of src/main.py: the asynchronous grab example.  Two threads take  *)
(* steps: the main thread (parse_args, get_camera, setup, the display      *)
(* loop and its finally block) and the acquisition backend's thread, which *)
(* invokes Handler.__call__ once per delivered frame.  They share the      *)
(* Handler object: display_queue, frame_count and start_time.              *)
(***************************************************************************)
EXTENDS Integers, Sequences, FiniteSets, TLC

(***************************************************************************)
(* Program constants.                                                      *)
(***************************************************************************)
QueueCapacity == 10
BufferCount == 10
target_fps == 30
opencv_display_format == "Bgr8"

(***************************************************************************)
(* Bounds of the model.                                                    *)
(***************************************************************************)
\* a long run delivers enough Complete frames to fill the queue and block
MaxFrames == 12
\* a short run crosses seconds of the clock and meets frames that fail
MaxShortFrames == 3
MaxFailures == 1
MaxTime == 1
MaxArgs == 2

(***************************************************************************)
(* Values.                                                                 *)
(***************************************************************************)
None == "None"
ArgValues == {"-h", "/h", "cam1", "camX"}
ArgLists == UNION {[1..n -> ArgValues] : n \in 0..MaxArgs}
CameraSets == {{}, {"cam1"}}
COLOR_PIXEL_FORMATS == {"Bgr8", "Rgb8", "BayerRG12p"}
MONO_PIXEL_FORMATS == {"Mono8", "Mono12p"}
FormatSets == {{}, {"Mono12p"}, {"Mono8"}, {"Rgb8", "Mono8"},
               {"Bgr8", "Rgb8"}, {"BayerRG12p", "Mono8"}}
FrameStatuses == {"Complete", "Incomplete"}
\* one tick of the clock is a second
TicksPerSecond == 1
\* the residuals time.time() - last_frame_time the pacing step can measure,
\* in microseconds
PacingSamples == {0, 20000, 32500, 33000, 40000}

VARIABLES
    budget,          \* what the environment does in this run
    argv,            \* sys.argv[1:]
    cams,            \* the cameras the system has
    cam_formats,     \* the pixel formats the camera offers
    main_pc,         \* position of the main thread
    exit_code,       \* the code sys.exit was called with: {} while running
    printed,         \* the kinds of message printed so far
    cam_id,          \* parse_args' result
    cam,             \* get_camera's result
    pixel_format,    \* the format set by setup_pixel_format
    start_count,     \* calls of cam.start_streaming
    stop_count,      \* calls of cam.stop_streaming
    streaming,       \* the backend is delivering frames
    loop_exit,       \* how the display loop was left
    display_queue,   \* Handler.display_queue
    frame_count,     \* Handler.frame_count
    start_time,      \* Handler.start_time
    now,             \* time.time()
    cb_pc,           \* position of the backend thread inside Handler.__call__
    frame,           \* the frame the callback holds
    cb_local,        \* the callback's locals
    cb_result,       \* how the latest invocation of the callback ended
    main_local,      \* the display loop's locals
    free_buffers,    \* frame buffers the backend owns
    pushed,          \* images put on display_queue so far
    key_pending,     \* the stop key was pressed and not yet polled
    window_open,     \* the display window exists
    writers          \* threads that have written frame_count or start_time

vars == <<budget, argv, cams, cam_formats, main_pc, exit_code, printed,
          cam_id, cam, pixel_format, start_count, stop_count, streaming,
          loop_exit, display_queue, frame_count, start_time, now, cb_pc,
          frame, cb_local, cb_result, main_local, free_buffers, pushed,
          key_pending, window_open, writers>>

startup_vars == <<budget, argv, cams, cam_formats, exit_code, printed,
                  cam_id, cam, pixel_format>>
stream_vars == <<start_count, stop_count, streaming, loop_exit>>
handler_vars == <<display_queue, frame_count, start_time, writers>>
backend_vars == <<cb_pc, frame, cb_local, cb_result, free_buffers, pushed>>
ui_vars == <<key_pending, window_open>>

\* n: the image is the n-th put on the queue
NoImage == [n |-> 0, status |-> None, inplace |-> FALSE]
\* requeues, pushes, waited: what has happened to the frame in this callback
NoFrame == [status |-> None, format |-> None, requeues |-> 0,
            pushes |-> 0, waited |-> FALSE]
NoCbLocal == [image |-> NoImage, tmp |-> 0]
NoMainLocal == [display |-> NoImage, current_time |-> 0, elapsed_time |-> 0,
                tmp |-> 0, wait_time |-> -1]

\* the state of the process when main is entered
Start ==
    /\ main_pc = "parse_args"
    /\ exit_code = {}
    /\ printed = {"preamble"}
    /\ cam_id = None
    /\ cam = None
    /\ pixel_format = None
    /\ start_count = 0
    /\ stop_count = 0
    /\ streaming = FALSE
    /\ loop_exit = None
    /\ display_queue = <<>>
    /\ frame_count = 0
    /\ start_time = 0
    /\ now = 0
    /\ cb_pc = "idle"
    /\ frame = NoFrame
    /\ cb_local = NoCbLocal
    /\ cb_result = None
    /\ main_local = NoMainLocal
    /\ free_buffers = 0
    /\ pushed = 0
    /\ key_pending = FALSE
    /\ window_open = FALSE
    /\ writers = {}

\* the runs explored: long runs within one second of the clock, and short
\* runs in which the clock advances and frames may fail to convert
Runs == {[frames |-> MaxFrames, ticks |-> 0, failures |-> 0],
         [frames |-> MaxShortFrames, ticks |-> MaxTime,
          failures |-> MaxFailures]}

\* every command line, set of cameras and set of pixel formats
InitStartup ==
    /\ budget \in Runs
    /\ argv \in ArgLists
    /\ cams \in CameraSets
    /\ cam_formats \in FormatSets
    /\ Start

\* the inputs with which main reaches the streaming session: the display
\* format offered by the camera, or a format that has to be converted
Init ==
    /\ budget \in Runs
    /\ argv = <<>>
    /\ cams = {"cam1"}
    /\ cam_formats \in {{"Bgr8", "Rgb8"}, {"Mono8"}}
    /\ Start

(***************************************************************************)
(* Startup: parse_args, get_camera, setup_camera, setup_pixel_format.      *)
(***************************************************************************)
DefaultReturnCode == 1
InvalidArgsReturnCode == 2

\* as if abort printed its message and returned
abort_no_exit(reason, return_code, usage) ==
    [out |-> {reason} \cup (IF usage THEN {"usage"} ELSE {}),
     code |-> {}]

\* abort(reason, return_code, usage): what it prints and the code it exits with
abort(reason, return_code, usage) ==
    [out |-> {reason} \cup (IF usage THEN {"usage"} ELSE {}),
     code |-> {return_code}]

\* as if the number of arguments were checked before the help flag
parse_args_count_first(args) ==
    LET argc == Len(args) IN
    IF argc > 1
    THEN LET a == abort("Invalid number of arguments. Abort.",
                        InvalidArgsReturnCode, TRUE)
         IN  [out |-> a.out, code |-> a.code, ret |-> None]
    ELSE IF \E i \in 1..argc : args[i] \in {"/h", "-h"}
    THEN [out |-> {"usage"}, code |-> {0}, ret |-> None]
    ELSE [out |-> {}, code |-> {},
          ret |-> IF argc = 0 THEN None ELSE args[1]]

\* parse_args on the argument list args: exits (code # {}) or returns ret
parse_args(args) ==
    LET argc == Len(args) IN
    IF \E i \in 1..argc : args[i] \in {"/h", "-h"}
    THEN [out |-> {"usage"}, code |-> {0}, ret |-> None]
    ELSE IF argc > 1
    THEN LET a == abort("Invalid number of arguments. Abort.",
                        InvalidArgsReturnCode, TRUE)
         IN  [out |-> a.out, code |-> a.code, ret |-> None]
    ELSE [out |-> {}, code |-> {},
          ret |-> IF argc = 0 THEN None ELSE args[1]]

\* get_camera(camera_id) with the cameras all_cams present
get_camera(camera_id, all_cams) ==
    IF camera_id # None
    THEN IF camera_id \in all_cams
         THEN [out |-> {}, code |-> {}, ret |-> camera_id]
         ELSE LET a == abort("Failed to access Camera. Abort.",
                             DefaultReturnCode, FALSE)
              IN  [out |-> a.out, code |-> a.code, ret |-> None]
    ELSE IF all_cams = {}
         THEN LET a == abort("No Cameras accessible. Abort.",
                             DefaultReturnCode, FALSE)
              IN  [out |-> a.out, code |-> a.code, ret |-> None]
         ELSE [out |-> {}, code |-> {}, ret |-> CHOOSE c \in all_cams : TRUE]

\* f.get_convertible_formats() contains the display format
ConvertibleToDisplay(f) == f \in {"Rgb8", "Mono8"}

\* setup_pixel_format on a camera offering formats
setup_pixel_format(formats) ==
    LET cam_color_formats == formats \cap COLOR_PIXEL_FORMATS
        convertible_color_formats ==
            {f \in cam_color_formats : ConvertibleToDisplay(f)}
        cam_mono_formats == formats \cap MONO_PIXEL_FORMATS
        convertible_mono_formats ==
            {f \in cam_mono_formats : ConvertibleToDisplay(f)}
    IN  IF opencv_display_format \in formats
        THEN [out |-> {}, code |-> {}, ret |-> opencv_display_format]
        ELSE IF convertible_color_formats # {}
        THEN [out |-> {}, code |-> {},
              ret |-> CHOOSE f \in convertible_color_formats : TRUE]
        ELSE IF convertible_mono_formats # {}
        THEN [out |-> {}, code |-> {},
              ret |-> CHOOSE f \in convertible_mono_formats : TRUE]
        ELSE LET a == abort("Camera does not support a compatible format. Abort.",
                            DefaultReturnCode, FALSE)
             IN  [out |-> a.out, code |-> a.code, ret |-> None]

\* the main thread goes on to next_pc, or the process exits with r.code
Proceed(r, next_pc) ==
    /\ printed' = printed \cup r.out
    /\ exit_code' = r.code
    /\ main_pc' = IF r.code = {} THEN next_pc ELSE "exited"

M_ParseArgs ==
    /\ main_pc = "parse_args"
    /\ LET r == parse_args(argv) IN
        /\ Proceed(r, "get_camera")
        /\ cam_id' = r.ret
    /\ UNCHANGED <<budget, argv, cams, cam_formats, cam, pixel_format, now,
                   main_local>>
    /\ UNCHANGED <<stream_vars, handler_vars, backend_vars, ui_vars>>

M_GetCamera ==
    /\ main_pc = "get_camera"
    /\ LET r == get_camera(cam_id, cams) IN
        /\ Proceed(r, "setup_camera")
        /\ cam' = r.ret
    /\ UNCHANGED <<budget, argv, cams, cam_formats, cam_id, pixel_format, now,
                   main_local>>
    /\ UNCHANGED <<stream_vars, handler_vars, backend_vars, ui_vars>>

\* every feature setup_camera sets is optional: a failure is swallowed
M_SetupCamera ==
    /\ main_pc = "setup_camera"
    /\ main_pc' = "setup_pixel_format"
    /\ UNCHANGED <<startup_vars, now, main_local>>
    /\ UNCHANGED <<stream_vars, handler_vars, backend_vars, ui_vars>>

M_SetupPixelFormat ==
    /\ main_pc = "setup_pixel_format"
    /\ LET r == setup_pixel_format(cam_formats) IN
        /\ Proceed(r, "new_handler")
        /\ pixel_format' = r.ret
    /\ UNCHANGED <<budget, argv, cams, cam_formats, cam_id, cam, now,
                   main_local>>
    /\ UNCHANGED <<stream_vars, handler_vars, backend_vars, ui_vars>>

(***************************************************************************)
(* The streaming session of main: Handler(), start_streaming, the display  *)
(* loop, and the finally block.                                            *)
(***************************************************************************)
LoopPcs == {"poll", "get_image", "rate", "inc_load", "inc_store", "reset",
            "put_text", "pacing", "wait_key", "imshow"}
\* the statements of the loop that call into cv2
Cv2Pcs == {"poll", "put_text", "wait_key", "imshow"}

\* as if stop_streaming followed the loop with no try ... finally
on_exit_no_finally == "done"

\* try ... finally: where control goes when the loop is left
on_exit == "finally"

\* frame_duration = 1.0 / target_fps, in microseconds
frame_duration == 1000000 \div target_fps

\* int((frame_duration - time_since_last_frame) * 1000), in milliseconds
wait_time(time_since_last_frame) ==
    (frame_duration - time_since_last_frame) \div 1000

\* Handler.__init__
M_NewHandler ==
    /\ main_pc = "new_handler"
    /\ display_queue' = <<>>
    /\ frame_count' = 0
    /\ start_time' = now
    /\ main_pc' = "start_streaming"
    /\ UNCHANGED <<startup_vars, now, main_local, writers>>
    /\ UNCHANGED <<stream_vars, backend_vars, ui_vars>>

M_StartStreaming ==
    /\ main_pc = "start_streaming"
    /\ start_count' = start_count + 1
    /\ streaming' = TRUE
    /\ free_buffers' = BufferCount
    /\ main_pc' = "poll"
    /\ UNCHANGED <<startup_vars, now, main_local, stop_count, loop_exit>>
    /\ UNCHANGED <<handler_vars, ui_vars>>
    /\ UNCHANGED <<cb_pc, frame, cb_local, cb_result, pushed>>

\* the poll without its break: the window is destroyed, the loop goes on
M_PollKey_no_break ==
    /\ main_pc = "poll"
    /\ IF key_pending
       THEN /\ key_pending' = FALSE
            /\ window_open' = FALSE
            /\ loop_exit' = "stop"
       ELSE UNCHANGED <<key_pending, window_open, loop_exit>>
    /\ main_pc' = "get_image"
    /\ UNCHANGED <<startup_vars, now, main_local>>
    /\ UNCHANGED <<start_count, stop_count, streaming>>
    /\ UNCHANGED <<handler_vars, backend_vars>>

\* key = cv2.waitKey(1); on the stop key destroy the window and break
M_PollKey ==
    /\ main_pc = "poll"
    /\ IF key_pending
       THEN /\ key_pending' = FALSE
            /\ window_open' = FALSE
            /\ loop_exit' = "stop"
            /\ main_pc' = on_exit
       ELSE /\ main_pc' = "get_image"
            /\ UNCHANGED <<key_pending, window_open, loop_exit>>
    /\ UNCHANGED <<startup_vars, now, main_local>>
    /\ UNCHANGED <<start_count, stop_count, streaming>>
    /\ UNCHANGED <<handler_vars, backend_vars>>

\* the item display_queue.get(True) returns and the queue it leaves
get_lifo(q) == [item |-> q[Len(q)], rest |-> SubSeq(q, 1, Len(q) - 1)]

get(q) == [item |-> Head(q), rest |-> Tail(q)]

\* display = handler.get_image(): blocks while the queue is empty
M_GetImage ==
    /\ main_pc = "get_image"
    /\ Len(display_queue) > 0
    /\ LET g == get(display_queue) IN
        /\ main_local' = [main_local EXCEPT !.display = g.item]
        /\ display_queue' = g.rest
    /\ main_pc' = "rate"
    /\ UNCHANGED <<startup_vars, now, frame_count, start_time, writers>>
    /\ UNCHANGED <<stream_vars, backend_vars, ui_vars>>

\* current_time, elapsed_time and frame_rate are read
M_Rate ==
    /\ main_pc = "rate"
    /\ main_local' = [main_local EXCEPT !.current_time = now,
                                        !.elapsed_time = now - start_time]
    /\ main_pc' = "inc_load"
    /\ UNCHANGED <<startup_vars, now>>
    /\ UNCHANGED <<stream_vars, handler_vars, backend_vars, ui_vars>>

\* handler.frame_count += 1 reads the field ...
M_IncLoad ==
    /\ main_pc = "inc_load"
    /\ main_local' = [main_local EXCEPT !.tmp = frame_count]
    /\ main_pc' = "inc_store"
    /\ UNCHANGED <<startup_vars, now>>
    /\ UNCHANGED <<stream_vars, handler_vars, backend_vars, ui_vars>>

\* ... and then writes it
M_IncStore ==
    /\ main_pc = "inc_store"
    /\ frame_count' = main_local.tmp + 1
    /\ writers' = writers \cup {"main"}
    /\ main_local' = [main_local EXCEPT !.tmp = 0]
    /\ main_pc' = "reset"
    /\ UNCHANGED <<startup_vars, now, display_queue, start_time>>
    /\ UNCHANGED <<stream_vars, backend_vars, ui_vars>>

\* if elapsed_time >= 1.0: reset the counter and the window start
M_Reset ==
    /\ main_pc = "reset"
    /\ IF main_local.elapsed_time >= TicksPerSecond
       THEN /\ frame_count' = 0
            /\ start_time' = main_local.current_time
            /\ writers' = writers \cup {"main"}
       ELSE UNCHANGED <<frame_count, start_time, writers>>
    /\ main_local' = [main_local EXCEPT !.current_time = 0, !.elapsed_time = 0]
    /\ main_pc' = "put_text"
    /\ UNCHANGED <<startup_vars, now, display_queue>>
    /\ UNCHANGED <<stream_vars, backend_vars, ui_vars>>

\* cv2.putText draws the rate on the image
M_PutText ==
    /\ main_pc = "put_text"
    /\ main_pc' = "pacing"
    /\ UNCHANGED <<startup_vars, now, main_local>>
    /\ UNCHANGED <<stream_vars, handler_vars, backend_vars, ui_vars>>

\* time_since_last_frame is measured and compared with frame_duration
M_Pacing ==
    /\ main_pc = "pacing"
    /\ \E time_since_last_frame \in PacingSamples :
        IF time_since_last_frame < frame_duration
        THEN /\ main_local' = [main_local EXCEPT
                                 !.wait_time = wait_time(time_since_last_frame)]
             /\ main_pc' = "wait_key"
        ELSE /\ main_pc' = "imshow"
             /\ UNCHANGED main_local
    /\ UNCHANGED <<startup_vars, now>>
    /\ UNCHANGED <<stream_vars, handler_vars, backend_vars, ui_vars>>

\* cv2.waitKey(wait_time): its result is dropped.  With no window it returns
\* at once; with a timeout of 0 it waits until a key is pressed.
M_WaitKey ==
    /\ main_pc = "wait_key"
    /\ \/ ~window_open
       \/ main_local.wait_time > 0
       \/ key_pending
    /\ key_pending' = FALSE
    /\ main_local' = [main_local EXCEPT !.wait_time = -1]
    /\ main_pc' = "imshow"
    /\ UNCHANGED <<startup_vars, now, window_open>>
    /\ UNCHANGED <<stream_vars, handler_vars, backend_vars>>

\* last_frame_time = time.time(); cv2.imshow(title, display)
M_Show ==
    /\ main_pc = "imshow"
    /\ window_open' = TRUE
    /\ main_local' = NoMainLocal
    /\ main_pc' = "poll"
    /\ UNCHANGED <<startup_vars, now, key_pending>>
    /\ UNCHANGED <<stream_vars, handler_vars, backend_vars>>

\* an exception raised by a statement of the loop, or KeyboardInterrupt,
\* leaves the loop
M_Raise ==
    /\ main_pc \in LoopPcs
    /\ \/ /\ main_pc \in Cv2Pcs
          /\ loop_exit' = "exception"
       \/ loop_exit' = "interrupt"
    /\ main_local' = NoMainLocal
    /\ main_pc' = on_exit
    /\ UNCHANGED <<startup_vars, now>>
    /\ UNCHANGED <<start_count, stop_count, streaming>>
    /\ UNCHANGED <<handler_vars, backend_vars, ui_vars>>

\* finally: cam.stop_streaming()
M_Finally ==
    /\ main_pc = "finally"
    /\ stop_count' = stop_count + 1
    /\ streaming' = FALSE
    /\ main_pc' = "done"
    /\ UNCHANGED <<startup_vars, now, main_local>>
    /\ UNCHANGED <<start_count, loop_exit>>
    /\ UNCHANGED <<handler_vars, backend_vars, ui_vars>>

(***************************************************************************)
(* The backend thread: one invocation of Handler.__call__ per delivered    *)
(* frame, one invocation at a time.                                        *)
(***************************************************************************)
\* frames delivered to the handler and not returned by cam.queue_frame
Outstanding == BufferCount - free_buffers

\* frames whose callback ended without returning them
Leaked == Outstanding - (IF cb_pc = "idle" THEN 0 ELSE 1)

\* as if the status of the frame were not looked at
is_complete_unchecked(f) == TRUE

\* frame.get_status() == FrameStatus.Complete
is_complete(f) == f.status = "Complete"

\* the outcomes of display = frame | frame.convert_pixel_format(...) followed
\* by display.as_opencv_image()
ConvertOutcomes(f) ==
    {"ok", "image_error"} \cup
    (IF f.format = opencv_display_format THEN {} ELSE {"convert_error"})

\* as if the queue had no capacity
not_full_unbounded(q) == TRUE

\* Queue.put(item, True) may proceed
not_full(q) == Len(q) < QueueCapacity

\* the queue after Queue.put
put(q, item) == Append(q, item)

\* the backend fills a buffer it owns and invokes the handler with it
B_Deliver ==
    /\ streaming
    /\ cb_pc = "idle"
    /\ free_buffers > 0
    /\ pushed < budget.frames
    /\ \E status \in FrameStatuses :
        frame' = [NoFrame EXCEPT !.status = status, !.format = pixel_format]
    /\ free_buffers' = free_buffers - 1
    /\ cb_pc' = "status"
    /\ UNCHANGED <<startup_vars, main_pc, now, main_local>>
    /\ UNCHANGED <<stream_vars, handler_vars, ui_vars>>
    /\ UNCHANGED <<cb_local, cb_result, pushed>>

\* if frame.get_status() == FrameStatus.Complete: print and go on
B_CheckStatus ==
    /\ cb_pc = "status"
    /\ IF is_complete(frame)
       THEN /\ printed' = printed \cup {"acquired"}
            /\ cb_pc' = "convert"
       ELSE /\ cb_pc' = "queue_frame"
            /\ UNCHANGED printed
    /\ UNCHANGED <<budget, argv, cams, cam_formats, exit_code, cam_id, cam,
                   pixel_format>>
    /\ UNCHANGED <<main_pc, now, main_local>>
    /\ UNCHANGED <<stream_vars, handler_vars, ui_vars>>
    /\ UNCHANGED <<frame, cb_local, cb_result, free_buffers, pushed>>

\* the display image is obtained; an error raised here leaves __call__
B_Convert ==
    /\ cb_pc = "convert"
    /\ \E outcome \in ConvertOutcomes(frame) :
        IF outcome = "ok"
        THEN /\ cb_local' = [cb_local EXCEPT !.image =
                    [n |-> pushed + 1, status |-> frame.status,
                     inplace |-> frame.format = opencv_display_format]]
             /\ cb_pc' = "put"
             /\ UNCHANGED <<frame, cb_result>>
        ELSE /\ Leaked < budget.failures
             /\ frame' = NoFrame
             /\ cb_local' = NoCbLocal
             /\ cb_result' = "raised"
             /\ cb_pc' = "idle"
    /\ UNCHANGED <<startup_vars, main_pc, now, main_local>>
    /\ UNCHANGED <<stream_vars, handler_vars, ui_vars>>
    /\ UNCHANGED <<free_buffers, pushed>>

\* display_queue.put finds the queue full and waits
B_PutWait ==
    /\ cb_pc = "put"
    /\ ~not_full(display_queue)
    /\ ~frame.waited
    /\ frame' = [frame EXCEPT !.waited = TRUE]
    /\ UNCHANGED <<startup_vars, main_pc, now, main_local>>
    /\ UNCHANGED <<stream_vars, handler_vars, ui_vars>>
    /\ UNCHANGED <<cb_pc, cb_local, cb_result, free_buffers, pushed>>

\* as if the put did not block: on a full queue the image is discarded
B_Put_nowait ==
    /\ cb_pc = "put"
    /\ IF not_full(display_queue)
       THEN /\ display_queue' = put(display_queue, cb_local.image)
            /\ pushed' = pushed + 1
            /\ frame' = [frame EXCEPT !.pushes = @ + 1]
       ELSE UNCHANGED <<display_queue, pushed, frame>>
    /\ cb_local' = [cb_local EXCEPT !.image = NoImage]
    /\ cb_pc' = "inc_load"
    /\ UNCHANGED <<startup_vars, main_pc, now, main_local>>
    /\ UNCHANGED <<stream_vars, ui_vars, frame_count, start_time, writers>>
    /\ UNCHANGED <<cb_result, free_buffers>>

\* self.display_queue.put(image, True)
B_Put ==
    /\ cb_pc = "put"
    /\ not_full(display_queue)
    /\ display_queue' = put(display_queue, cb_local.image)
    /\ pushed' = pushed + 1
    /\ frame' = [frame EXCEPT !.pushes = @ + 1]
    /\ cb_local' = [cb_local EXCEPT !.image = NoImage]
    /\ cb_pc' = "inc_load"
    /\ UNCHANGED <<startup_vars, main_pc, now, main_local>>
    /\ UNCHANGED <<stream_vars, ui_vars, frame_count, start_time, writers>>
    /\ UNCHANGED <<cb_result, free_buffers>>

\* self.frame_count += 1 reads the field ...
B_IncLoad ==
    /\ cb_pc = "inc_load"
    /\ cb_local' = [cb_local EXCEPT !.tmp = frame_count]
    /\ cb_pc' = "inc_store"
    /\ UNCHANGED <<startup_vars, main_pc, now, main_local>>
    /\ UNCHANGED <<stream_vars, handler_vars, ui_vars>>
    /\ UNCHANGED <<frame, cb_result, free_buffers, pushed>>

\* ... and then writes it
B_IncStore ==
    /\ cb_pc = "inc_store"
    /\ frame_count' = cb_local.tmp + 1
    /\ writers' = writers \cup {"backend"}
    /\ cb_local' = [cb_local EXCEPT !.tmp = 0]
    /\ cb_pc' = "rate"
    /\ UNCHANGED <<startup_vars, main_pc, now, main_local>>
    /\ UNCHANGED <<stream_vars, ui_vars, display_queue, start_time>>
    /\ UNCHANGED <<frame, cb_result, free_buffers, pushed>>

\* once a second the rate is printed and the counter and window start reset
B_Rate ==
    /\ cb_pc = "rate"
    /\ IF now - start_time >= TicksPerSecond
       THEN /\ printed' = printed \cup {"rate"}
            /\ frame_count' = 0
            /\ start_time' = now
            /\ writers' = writers \cup {"backend"}
       ELSE UNCHANGED <<printed, frame_count, start_time, writers>>
    /\ cb_pc' = "queue_frame"
    /\ UNCHANGED <<budget, argv, cams, cam_formats, exit_code, cam_id, cam,
                   pixel_format>>
    /\ UNCHANGED <<main_pc, now, main_local, display_queue>>
    /\ UNCHANGED <<stream_vars, ui_vars>>
    /\ UNCHANGED <<frame, cb_local, cb_result, free_buffers, pushed>>

\* cam.queue_frame(frame): the buffer goes back to the backend
B_QueueFrame ==
    /\ cb_pc = "queue_frame"
    /\ free_buffers' = free_buffers + 1
    /\ frame' = [frame EXCEPT !.requeues = @ + 1]
    /\ cb_pc' = "return"
    /\ UNCHANGED <<startup_vars, main_pc, now, main_local>>
    /\ UNCHANGED <<stream_vars, handler_vars, ui_vars>>
    /\ UNCHANGED <<cb_local, cb_result, pushed>>

\* __call__ returns to the backend
B_Return ==
    /\ cb_pc = "return"
    /\ frame' = NoFrame
    /\ cb_result' = "returned"
    /\ cb_pc' = "idle"
    /\ UNCHANGED <<startup_vars, main_pc, now, main_local>>
    /\ UNCHANGED <<stream_vars, handler_vars, ui_vars>>
    /\ UNCHANGED <<cb_local, free_buffers, pushed>>

(***************************************************************************)
(* The environment: the clock and the keyboard.                            *)
(***************************************************************************)
Tick ==
    /\ streaming
    /\ now < budget.ticks
    /\ now' = now + 1
    /\ UNCHANGED <<startup_vars, main_pc, main_local>>
    /\ UNCHANGED <<stream_vars, handler_vars, backend_vars, ui_vars>>

\* the user presses the stop key in the display window
PressKey ==
    /\ window_open
    /\ ~key_pending
    /\ key_pending' = TRUE
    /\ UNCHANGED <<startup_vars, main_pc, now, main_local, window_open>>
    /\ UNCHANGED <<stream_vars, handler_vars, backend_vars>>

Next ==
    \/ M_ParseArgs
    \/ M_GetCamera
    \/ M_SetupCamera
    \/ M_SetupPixelFormat
    \/ M_NewHandler
    \/ M_StartStreaming
    \/ M_PollKey
    \/ M_GetImage
    \/ M_Rate
    \/ M_IncLoad
    \/ M_IncStore
    \/ M_Reset
    \/ M_PutText
    \/ M_Pacing
    \/ M_WaitKey
    \/ M_Show
    \/ M_Raise
    \/ M_Finally
    \/ B_Deliver
    \/ B_CheckStatus
    \/ B_Convert
    \/ B_PutWait
    \/ B_Put
    \/ B_IncLoad
    \/ B_IncStore
    \/ B_Rate
    \/ B_QueueFrame
    \/ B_Return
    \/ Tick
    \/ PressKey

Spec == Init /\ [][Next]_vars

\* the steps the main thread takes of its own accord
MainStep ==
    \/ M_ParseArgs
    \/ M_GetCamera
    \/ M_SetupCamera
    \/ M_SetupPixelFormat
    \/ M_NewHandler
    \/ M_StartStreaming
    \/ M_PollKey
    \/ M_GetImage
    \/ M_Rate
    \/ M_IncLoad
    \/ M_IncStore
    \/ M_Reset
    \/ M_PutText
    \/ M_Pacing
    \/ M_WaitKey
    \/ M_Show
    \/ M_Finally

\* the steps of an invocation of the callback, once the frame is delivered
CallbackStep ==
    \/ B_CheckStatus
    \/ B_Convert
    \/ B_PutWait
    \/ B_Put
    \/ B_IncLoad
    \/ B_IncStore
    \/ B_Rate
    \/ B_QueueFrame
    \/ B_Return

\* both threads are scheduled fairly: a thread that can take a step does
\* not wait for ever.  The camera, the clock, the keyboard and exceptions
\* owe nothing.
FairSpec == Spec /\ WF_vars(MainStep) /\ WF_vars(CallbackStep)

\* main up to the call of start_streaming, on every input
NextStartup ==
    \/ M_ParseArgs
    \/ M_GetCamera
    \/ M_SetupCamera
    \/ M_SetupPixelFormat
    \/ M_NewHandler
    \/ M_StartStreaming

SpecStartup == InitStartup /\ [][NextStartup]_vars

(***************************************************************************)
(* Properties.                                                             *)
(***************************************************************************)
CallbackActive == cb_pc # "idle"

\* the images the program holds: queued, about to be queued, being displayed
HeldImages ==
    {display_queue[i] : i \in 1..Len(display_queue)}
        \cup ({cb_local.image, main_local.display} \ {NoImage})

\* C1: every frame delivered to Handler.__call__, whatever its status, is
\* returned to the backend by cam.queue_frame exactly once: when no
\* invocation is running no delivered frame is outstanding, and no frame is
\* returned twice.
C1_EveryFrameRequeuedOnce ==
    /\ frame.requeues <= 1
    /\ cb_pc = "return" => frame.requeues = 1
    /\ (start_count > 0 /\ ~CallbackActive) => Outstanding = 0

\* C2: display_queue holds between 0 and QueueCapacity images; a put that
\* finds the queue full completes only after a get has made room, and a put
\* on a queue that is not full can complete at once.
C2_BoundedBlockingQueue ==
    /\ [](Len(display_queue) \in 0..QueueCapacity)
    /\ []((cb_pc = "put" /\ Len(display_queue) < QueueCapacity)
             => ENABLED B_Put)
    /\ [][(cb_pc = "put" /\ Len(display_queue) = QueueCapacity)
             => (cb_pc' = "put" /\ frame'.pushes = 0
                 /\ Len(display_queue') <= Len(display_queue))]_vars

\* the first QueueCapacity puts have returned with no get, and the next put
\* waits on the full queue
C2_Witness ==
    /\ cb_pc = "put"
    /\ frame.waited
    /\ pushed = QueueCapacity
    /\ Len(display_queue) = QueueCapacity

\* C3: an image of a frame whose status is not Complete is never on
\* display_queue and never reaches the display loop.
C3_OnlyCompleteFramesQueued ==
    \A image \in HeldImages : image.status = "Complete"

\* a frame that is not Complete has been through the callback while images
\* are queued
C3_Witness ==
    /\ cb_pc = "return"
    /\ frame.status = "Incomplete"
    /\ Len(display_queue) > 0
    /\ main_local.display # NoImage

\* C4: however the display loop ends (stop key, exception, interrupt),
\* cam.stop_streaming is called exactly once, and never while the loop runs.
C4_StopStreamingOnce ==
    /\ stop_count <= 1
    /\ main_pc \in LoopPcs => (stop_count = 0 /\ loop_exit = None)
    /\ loop_exit # None => main_pc \in {"finally", "done"}
    /\ main_pc = "finally" => (stop_count = 0 /\ loop_exit # None)
    /\ main_pc = "done" => (stop_count = 1 /\ loop_exit # None)
    /\ (start_count > 0 /\ main_pc \notin LoopPcs \cup {"finally"})
           => (main_pc = "done" /\ stop_count = 1)

\* the loop was left by an exception after images had been displayed, and
\* streaming has been stopped
C4_Witness ==
    /\ main_pc = "done"
    /\ loop_exit = "exception"
    /\ window_open
    /\ stop_count = 1

\* C5: a Complete frame whose callback returns has put exactly one image on
\* display_queue, also when the put found the queue full: the callback waits
\* and does not discard the frame.
C5_CompleteFramesPushedOnce ==
    /\ frame.pushes <= 1
    /\ (cb_pc = "return" /\ frame.status = "Complete") => frame.pushes = 1
    /\ (cb_pc = "put" /\ frame.waited) => frame.pushes = 0

\* the callback of a Complete frame returns after it has waited on the full
\* queue and then put its image
C5_Witness ==
    /\ cb_pc = "return"
    /\ frame.status = "Complete"
    /\ frame.waited
    /\ frame.pushes = 1

\* C6: Handler.__call__ never lets an exception reach the backend: whatever
\* fails while a Complete frame is processed, the invocation returns.
C6_NoExceptionReachesBackend ==
    cb_result # "raised"

\* C7: every invocation of Handler.__call__ can still return: the callback
\* is never waiting on the full queue when the display loop has ended and
\* will take no more images.
C7_CallbackNeverStuck ==
    ~ /\ cb_pc = "put"
      /\ ~not_full(display_queue)
      /\ main_pc \in {"finally", "done"}

\* C10: frame_count and start_time are written by one thread only.
C10_SingleWriter ==
    Cardinality(writers) <= 1

\* the inputs of main, read off argv, cams and cam_formats
HelpGiven == \E i \in 1..Len(argv) : argv[i] = "-h" \/ argv[i] = "/h"
InvalidArgCount == ~HelpGiven /\ Len(argv) > 1
CameraMissing ==
    /\ ~HelpGiven
    /\ \/ Len(argv) = 0 /\ cams = {}
       \/ Len(argv) = 1 /\ argv[1] \notin cams
NoDisplayFormat ==
    \A f \in cam_formats : f # "Bgr8" /\ f # "Rgb8" /\ f # "Mono8"
AbortMessages ==
    {"Invalid number of arguments. Abort.", "Failed to access Camera. Abort.",
     "No Cameras accessible. Abort.",
     "Camera does not support a compatible format. Abort."}
Aborted ==
    /\ main_pc = "exited"
    /\ exit_code # {}
    /\ 0 \notin exit_code
    /\ printed \cap AbortMessages # {}
    /\ start_count = 0

\* C8: with an invalid argument count, a camera that is not there (none at
\* all, or not the one asked for) or no display-compatible pixel format,
\* main never gets to cam.start_streaming: once past the step that detects
\* the condition the process has exited with a message and a non-zero code;
\* with no camera at all that code is 1.
C8_FatalBeforeStreaming ==
    /\ main_pc = "exited" => start_count = 0
    /\ (InvalidArgCount /\ main_pc # "parse_args") => Aborted
    /\ (CameraMissing /\ main_pc \notin {"parse_args", "get_camera"})
           => Aborted
    /\ (NoDisplayFormat /\ ~HelpGiven
        /\ main_pc \notin {"parse_args", "get_camera", "setup_camera",
                           "setup_pixel_format"})
           => Aborted
    /\ (cams = {} /\ ~HelpGiven /\ ~InvalidArgCount /\ main_pc = "exited")
           => (exit_code = {1} /\ Aborted)

\* no camera is present and none was asked for: the process has exited with
\* code 1
C8_Witness ==
    /\ argv = <<>>
    /\ cams = {}
    /\ main_pc = "exited"
    /\ exit_code = {1}
    /\ "No Cameras accessible. Abort." \in printed

\* C9: parse_args prints the usage and exits with 0 when a help flag is
\* among the arguments, however many there are; otherwise it aborts with a
\* non-zero code when there is more than one argument; otherwise it returns
\* None for no argument, and then the first camera is used, and the argument
\* itself for one argument.
C9_ParseArgs ==
    main_pc # "parse_args" =>
        /\ HelpGiven =>
              /\ main_pc = "exited"
              /\ exit_code = {0}
              /\ "usage" \in printed
              /\ printed \cap AbortMessages = {}
        /\ InvalidArgCount =>
              /\ main_pc = "exited"
              /\ exit_code # {} /\ 0 \notin exit_code
              /\ "Invalid number of arguments. Abort." \in printed
        /\ (~HelpGiven /\ Len(argv) = 0) =>
              /\ cam_id = None
              /\ main_pc = "get_camera" => exit_code = {}
              /\ cam # None => cam \in cams
        /\ (~HelpGiven /\ Len(argv) = 1) =>
              /\ cam_id = argv[1]
              /\ main_pc = "get_camera" => exit_code = {}
              /\ cam # None => cam = argv[1]

\* a help flag after another argument: usage and exit code 0
C9_Witness ==
    /\ argv = <<"cam1", "-h">>
    /\ main_pc = "exited"
    /\ exit_code = {0}

\* C11: with both threads scheduled fairly, a stop key that has been
\* pressed and stays pending is eventually observed by the display loop,
\* which then leaves the loop, whatever the camera delivers.
C11_StopKeyEventuallyObserved ==
    key_pending ~> (~key_pending \/ main_pc \notin LoopPcs)

\* the queue holds the latest pushes, oldest first
QueueInPushOrder ==
    \A i \in 1..Len(display_queue) :
        display_queue[i].n = pushed - Len(display_queue) + i

\* C12: the display queue is first in, first out: it holds the images in
\* the order of their pushes, and each get_image returns the oldest image
\* not yet popped, which is the one the iteration annotates and shows.
C12_QueueIsFifo ==
    /\ []QueueInPushOrder
    /\ [][(main_pc = "get_image" /\ main_pc' = "rate") =>
            /\ main_local'.display.n = pushed - Len(display_queue) + 1
            /\ main_local'.display = Head(display_queue)]_vars
    /\ [][(main_pc \in {"rate", "inc_load", "inc_store", "reset", "put_text",
                         "pacing", "wait_key"} /\ main_pc' \in LoopPcs) =>
            (main_local'.display = main_local.display)]_vars

C12_Witness ==
    /\ main_pc = "imshow"
    /\ main_local.display.n >= 2
    /\ Len(display_queue) >= 2

\* C13: the rate counter holds one count per delivered frame and no more:
\* where a rate is computed frame_count does not exceed the number of frames
\* relayed, and in the callback, while the first window is still open, it
\* equals that number.
C13_OneCountPerFrame ==
    /\ (main_pc = "rate" \/ cb_pc = "rate") => frame_count <= pushed
    /\ (cb_pc = "rate" /\ now = 0) => frame_count = pushed

\* C14: pacing the display does not hold up acquisition: the callback is
\* never blocked in its put, keeping its frame from the backend, while the
\* display loop is in its pacing wait.
C14_PacingDoesNotBlockCallback ==
    ~(/\ main_pc = "wait_key"
      /\ cb_pc = "put"
      /\ ~not_full(display_queue))

\* C15: whenever the loop enters its pacing wait, the timeout it passes to
\* cv2.waitKey is a positive number of milliseconds no longer than the frame
\* duration, so the wait can end with no key pressed.
C15_PacingTimeoutPositive ==
    main_pc = "wait_key" =>
        /\ main_local.wait_time >= 1
        /\ main_local.wait_time * 1000 <= frame_duration
        /\ (~key_pending => ENABLED M_WaitKey)

\* the poll at the top of an iteration returns the stop key in this step
TopPollReturnsStopKey == main_pc = "poll" /\ key_pending /\ ~key_pending'

\* C16: when the poll at the top of an iteration returns the stop key, the
\* loop destroys the window in that step and leaves the loop with streaming
\* still on; stop_streaming comes after it, once; and from then on the window
\* is not touched again, no image is popped and none is shown.
C16_StopKeyEndsLoop ==
    /\ [][TopPollReturnsStopKey =>
            /\ window_open /\ ~window_open'
            /\ loop_exit' = "stop"
            /\ main_pc' = "finally"
            /\ streaming' /\ stop_count' = 0]_vars
    /\ [](loop_exit = "stop" =>
            /\ main_pc \in {"finally", "done"}
            /\ ~window_open
            /\ main_local.display = NoImage
            /\ stop_count = (IF main_pc = "done" THEN 1 ELSE 0))
    /\ [][loop_exit = "stop" =>
            /\ loop_exit' = "stop"
            /\ window_open' = window_open
            /\ main_local' = main_local
            /\ Len(display_queue') >= Len(display_queue)]_vars

C16_Witness ==
    /\ loop_exit = "stop"
    /\ main_pc = "done"
    /\ Len(display_queue) > 0

\* a poll of the loop, at the top of the iteration or as the pacing wait,
\* returns the stop key in this step
PollReturnsStopKey ==
    main_pc \in {"poll", "wait_key"} /\ key_pending /\ ~key_pending'

\* C17: no stop key is lost: every poll of the loop that returns the stop
\* key, the one at the top of the iteration and the one that serves as the
\* pacing wait, makes the loop exit in that step, before another image is
\* popped.
C17_StopKeyNeverLost ==
    [][PollReturnsStopKey => (main_pc' \notin LoopPcs /\ loop_exit' = "stop")]_vars

\* as_opencv_image is a view on the buffer of the frame it is called on: on
\* the in-place path that is the delivered frame, on the conversion path
\* the new frame convert_pixel_format made
SharesFrameBuffer(img) == img.inplace

\* the frame the image was made from is back with the backend
FrameRequeued(img) ==
    /\ img.n <= pushed
    /\ ~(img.n = pushed /\ frame.pushes = 1 /\ frame.requeues = 0)

\* C18: no image in the queue or in the hands of the display loop shares
\* its buffer with a frame already handed back to the backend, on the
\* in-place path and on the conversion path.
C18_NoImageSharesRequeuedBuffer ==
    \A img \in HeldImages : ~(SharesFrameBuffer(img) /\ FrameRequeued(img))

====
